---- MODULE Spec2Model ----
(***************************************************************************)
(* Model of future_vision_generator.py: FutureVisionGenerator and main.    *)
(*                                                                         *)
(* Strings are sequences of one-character strings, so that str.strip() and *)
(* the csv quoting are computed rather than assumed.  The remote           *)
(* text-generation capability (Runner.run) is the environment: each call   *)
(* returns one of Responses or raises one of Exceptions.  The harness is   *)
(* main's try/except, generalised to any api_key argument, any count and   *)
(* repeated batches on the same generator (main itself passes no api_key,  *)
(* the default count and runs one batch).  The values drawn by             *)
(* generate_seed_parameters only reach the query text sent to the remote   *)
(* capability, whose answer is unconstrained, so the model counts the      *)
(* draws and does not store them.  The file system is the environment of   *)
(* the write: open() may raise, a text the locale's encoding cannot encode *)
(* makes writerows raise after the rows before it were buffered, and the   *)
(* flush of the buffer may stop after any number of bytes.  A file is its  *)
(* complete lines (rows) and the bytes of a last, incomplete line (cut).   *)
(***************************************************************************)
EXTENDS Integers, Sequences, FiniteSets

\* ---------------------------------------------------------------- bounds
MaxCount == 3
MaxDups == 2
MaxBatches == 2

\* ---------------------------------------------------------------- strings
\* the whitespace characters str.strip() removes that occur in Responses
Whitespace == {" ", "\t", "\n"}

RECURSIVE LStrip(_)
LStrip(s) == IF s # <<>> /\ Head(s) \in Whitespace THEN LStrip(Tail(s)) ELSE s

RECURSIVE RStrip(_)
RStrip(s) ==
    IF s # <<>> /\ s[Len(s)] \in Whitespace
    THEN RStrip(SubSeq(s, 1, Len(s) - 1))
    ELSE s

\* a plausible slip: lstrip() instead of strip()
StripLeftOnly(s) == LStrip(s)

\* result.final_output.strip()
Strip(s) == RStrip(LStrip(s))

Digits == <<"0", "1", "2", "3", "4", "5", "6", "7", "8", "9">>

RECURSIVE Str(_)
\* str(i) for i >= 0, as the csv writer renders the ID
Str(n) == IF n < 10 THEN <<Digits[n + 1]>> ELSE Str(n \div 10) \o <<Digits[(n % 10) + 1]>>

RECURSIVE EscapeQuotes(_)
EscapeQuotes(s) ==
    IF s = <<>> THEN <<>>
    ELSE IF Head(s) = "\"" THEN <<"\"", "\"">> \o EscapeQuotes(Tail(s))
    ELSE <<Head(s)>> \o EscapeQuotes(Tail(s))

\* csv.QUOTE_ALL: every field between quotes, embedded quotes doubled
CsvField(s) == <<"\"">> \o EscapeQuotes(s) \o <<"\"">>

Header == <<CsvField(<<"I", "D">>), CsvField(<<"P", "r", "o", "m", "p", "t">>)>>

CsvRow(item) == <<CsvField(Str(item[1])), CsvField(item[2])>>

\* writer.writerow(['ID', 'Prompt']); writer.writerows(prompts)
CsvRows(items) == <<Header>> \o [k \in 1..Len(items) |-> CsvRow(items[k])]

\* ---------------------------------------------------------------- environment
\* What Runner.run may return as final_output.
Responses ==
    { <<"a">>, <<" ", "a">>, <<"a", "\n">>,
      <<"b", "U+1F680">>, <<"\t", "b", "U+1F680", " ">>,
      <<"a", " ", "\"", "b">>,
      <<>>, <<" ">> }

\* What Runner.run may raise (caught by main's handlers).
Exceptions == {"ValueError", "RuntimeError"}

\* Characters of Responses outside ASCII ("U+1F680" stands for one character).
NonAscii == {"U+1F680"}

\* open(self.output_file, 'w') names no encoding: the locale's is used.
Encodings == {"utf-8", "ascii"}

\* whether the text file can encode the text when the row is written
Encodable(s, enc) == enc = "utf-8" \/ \A k \in 1..Len(s) : s[k] \notin NonAscii

NoKey == "<unset>"
EnvKeys == {NoKey, "", "sk-test"}
ApiKeyArgs == {NoKey, "", "sk-test"}

NoFile == [exists |-> FALSE, rows |-> <<>>, cut |-> <<>>]
StaleFile == [exists |-> TRUE, rows |-> << <<CsvField(<<"o", "l", "d">>)>> >>, cut |-> <<>>]

\* a file of complete lines, as a successful write leaves it
Written(rows) == [exists |-> TRUE, rows |-> rows, cut |-> <<>>]

\* the bytes of one character in the file (only utf-8 meets a non-ASCII one)
Bytes(ch) == IF ch = "U+1F680" THEN <<"F0", "9F", "9A", "80">> ELSE <<ch>>

RECURSIVE Encode(_)
Encode(s) == IF s = <<>> THEN <<>> ELSE Bytes(Head(s)) \o Encode(Tail(s))

\* the line the csv writer makes of a row of two quoted fields
Line(row) == Encode(row[1] \o <<",">> \o row[2] \o <<"\r", "\n">>)

RECURSIVE Size(_)
Size(rows) == IF rows = <<>> THEN 0 ELSE Len(Line(Head(rows))) + Size(Tail(rows))

RECURSIVE Truncated(_, _)
\* the file holding the first n bytes of the lines of rows
Truncated(rows, n) ==
    IF rows = <<>> THEN Written(<<>>)
    ELSE IF n >= Len(Line(Head(rows)))
    THEN LET rest == Truncated(Tail(rows), n - Len(Line(Head(rows))))
         IN  [rest EXCEPT !.rows = <<Head(rows)>> \o @]
    ELSE [exists |-> TRUE, rows |-> <<>>, cut |-> SubSeq(Line(Head(rows)), 1, n)]
InitialFiles == {NoFile, StaleFile}

\* ---------------------------------------------------------------- state
VARIABLES
    pc,                 \* where the run is
    envKey,             \* os.environ["OPENAI_API_KEY"]
    file,               \* the output file
    encoding,           \* the locale's encoding, used by open()
    counted,            \* whether the history counters of this run are kept
    outcome,            \* what main printed last
    count,              \* generate_batch's count
    i,                  \* the for loop's index
    prompts,            \* generate_batch's result list
    generated_content,  \* generate_batch's seen set
    mode,               \* the remote capability: "free" or "dupOnly"
    batches,            \* batches started on this generator
    calls,              \* history: remote calls of this batch
    samplings,          \* history: parameter draws of this batch
    dupResponses,       \* history: responses of this batch whose text was seen
    rawDistinct,        \* history: no raw response of this batch repeated
    returned            \* history: raw responses of this batch (kept while they
                        \* are distinct and the loop may meet another)

vars == <<pc, envKey, file, encoding, counted, outcome, count, i, prompts, generated_content, mode,
          batches, calls, samplings, dupResponses, rawDistinct, returned>>

Texts(items) == {items[k][2] : k \in 1..Len(items)}

\* The history counters make the runs with ever more duplicate responses
\* ever new states.  A run that keeps them is followed up to MaxDups
\* duplicates in a batch; a run that does not keep them (each counter holds
\* Uncounted) is followed through any number of duplicates.
Uncounted == "uncounted"

Zero == IF counted THEN 0 ELSE Uncounted

Inc(c) == IF counted THEN c + 1 ELSE Uncounted

\* ---------------------------------------------------------------- code
\* a plausible slip: the credential check dropped
NoKeyCheck(key) == TRUE

\* if not os.environ.get("OPENAI_API_KEY"): raise ValueError
HasKey(key) == key \notin {NoKey, ""}

\* if api_key: os.environ["OPENAI_API_KEY"] = api_key
SetKey(env, arg) == IF arg \notin {NoKey, ""} THEN arg ELSE env

\* a plausible slip: the seen set kept on the generator across batches
KeepSeen(old) == old

\* generated_content = set()
NewSeen(old) == {}

\* a plausible slip: range(1, count)
LoopStopsEarly(k, n) == k < n

\* for i in range(1, count + 1)
LoopContinues(k, n) == k <= n

\* a plausible slip: the uniqueness loop dropped
NeverSeen(text, seen) == FALSE

\* while prompt in generated_content
InSeen(text, seen) == text \in seen

\* a plausible slip: zero-based numbering
AppendZeroBased(items, k, text) == Append(items, <<k - 1, text>>)

\* prompts.append((i, prompt))
AppendPrompt(items, k, text) == Append(items, <<k, text>>)

\* main's handlers: except ValueError -> configuration error,
\* except Exception -> generation error
Classify(exc) == IF exc = "ValueError" THEN "config_error" ELSE "generation_error"

\* ---------------------------------------------------------------- actions
Init ==
    /\ pc = "start"
    /\ envKey \in EnvKeys
    /\ file \in InitialFiles
    /\ encoding \in Encodings
    /\ counted = TRUE
    /\ outcome = "none"
    /\ count = 0
    /\ i = 1
    /\ prompts = <<>>
    /\ generated_content = {}
    /\ mode = "free"
    /\ batches = 0
    /\ calls = 0
    /\ samplings = 0
    /\ dupResponses = 0
    /\ rawDistinct = TRUE
    /\ returned = {}

\* main: generator = FutureVisionGenerator(output_path[, api_key])
Construct(arg) ==
    /\ pc = "start"
    /\ envKey' = SetKey(envKey, arg)
    /\ IF HasKey(envKey')
       THEN /\ pc' = "ready"
            /\ outcome' = outcome
       ELSE /\ pc' = "aborted"
            /\ outcome' = Classify("ValueError")
    /\ UNCHANGED <<file, encoding, counted, count, i, prompts, generated_content, mode,
                   batches, calls, samplings, dupResponses, rawDistinct, returned>>

\* generate_and_save(n) entering generate_batch(n)
StartBatch(n) ==
    /\ pc \in {"ready", "done"}
    /\ batches < MaxBatches
    /\ batches' = batches + 1
    /\ count' = n
    /\ prompts' = <<>>
    /\ generated_content' = NewSeen(generated_content)
    /\ i' = 1
    /\ pc' = IF LoopContinues(1, n) THEN "sample" ELSE "save"
    /\ calls' = Zero
    /\ samplings' = Zero
    /\ dupResponses' = Zero
    /\ rawDistinct' = TRUE
    /\ returned' = {}
    /\ UNCHANGED <<envKey, file, encoding, counted, outcome, mode>>

\* params = self.generate_seed_parameters()
Sample ==
    /\ pc = "sample"
    /\ pc' = "request"
    /\ samplings' = Inc(samplings)
    /\ UNCHANGED <<envKey, file, encoding, counted, outcome, count, i, prompts,
                   generated_content, mode, batches, calls, dupResponses,
                   rawDistinct, returned>>

\* the while test on the returned text and, when it fails, the add, the
\* append and the for loop's next step
OnReturn(text) ==
    IF InSeen(text, generated_content)
    THEN /\ pc' = "sample"
         /\ UNCHANGED <<i, prompts, generated_content>>
    ELSE /\ generated_content' = generated_content \cup {text}
         /\ prompts' = AppendPrompt(prompts, i, text)
         /\ i' = i + 1
         /\ pc' = IF LoopContinues(i + 1, count) THEN "sample" ELSE "save"

\* prompt = await self.generate_prompt(params) returns
RemoteReturns(raw) ==
    /\ pc = "request"
    /\ LET text == Strip(raw)
           dup  == text \in Texts(prompts)
       IN  /\ (counted /\ dup) => dupResponses < MaxDups
           /\ mode = "dupOnly" => dup
           /\ calls' = Inc(calls)
           /\ dupResponses' = IF dup THEN Inc(dupResponses) ELSE dupResponses
           /\ rawDistinct' = (rawDistinct /\ raw \notin returned)
           /\ OnReturn(text)
           /\ returned' = IF rawDistinct' /\ pc' # "save" THEN returned \cup {raw} ELSE {}
    /\ UNCHANGED <<envKey, file, encoding, counted, outcome, count, mode, batches, samplings>>

\* an exception leaves generate_and_save and generate_batch for main's
\* handler, which prints and returns: the locals of the batch are gone
Raise(exc) ==
    /\ pc' = "aborted"
    /\ outcome' = Classify(exc)
    /\ i' = 1
    /\ prompts' = <<>>
    /\ generated_content' = {}

\* await Runner.run(...) raises; nothing below main catches it
RemoteFails(exc) ==
    /\ pc = "request"
    /\ mode = "free"
    /\ calls' = Inc(calls)
    /\ Raise(exc)
    /\ UNCHANGED <<envKey, file, encoding, counted, count, mode, batches, samplings,
                   dupResponses, rawDistinct, returned>>

\* the items whose text the file cannot encode
Unencodable(items, enc) == {k \in 1..Len(items) : ~Encodable(items[k][2], enc)}

Min(S) == CHOOSE x \in S : \A y \in S : x <= y

\* the rows that reach the file object's buffer: all of them, or the header
\* and the rows before the first text the encoding cannot encode
Buffered(items, enc) ==
    IF Unencodable(items, enc) = {} THEN CsvRows(items)
    ELSE SubSeq(CsvRows(items), 1, Min(Unencodable(items, enc)))

\* with open(self.output_file, 'w') ...: writerow(header); writerows(prompts),
\* every row encoded, the buffer flushed when the with block closes the file
Save ==
    /\ pc = "save"
    /\ Unencodable(prompts, encoding) = {}
    /\ file' = Written(CsvRows(prompts))
    /\ outcome' = "success"
    /\ pc' = "done"
    /\ UNCHANGED <<envKey, encoding, counted, count, i, prompts, generated_content, mode,
                   batches, calls, samplings, dupResponses, rawDistinct, returned>>

\* open(self.output_file, 'w') raises OSError (no such directory, no
\* permission): nothing is written, main's except Exception reports it
OpenFails ==
    /\ pc = "save"
    /\ Raise("OSError")
    /\ UNCHANGED <<envKey, file, encoding, counted, count, mode, batches, calls, samplings,
                   dupResponses, rawDistinct, returned>>

\* open() truncated the file, the header and the rows before the first text
\* the encoding cannot encode are written, writerows raises
\* UnicodeEncodeError (a ValueError), the with block closes the file
EncodeFails ==
    /\ pc = "save"
    /\ Unencodable(prompts, encoding) # {}
    /\ file' = Written(Buffered(prompts, encoding))
    /\ Raise("ValueError")
    /\ UNCHANGED <<envKey, encoding, counted, count, mode, batches, calls, samplings,
                   dupResponses, rawDistinct, returned>>

\* open() truncated the file and the flush of the buffer stops after n bytes
\* (file size limit, disk full): the close raises OSError, also over a
\* pending UnicodeEncodeError, and main's except Exception reports it
FlushFails ==
    /\ pc = "save"
    /\ LET rows == Buffered(prompts, encoding)
       IN  \E n \in 0..(Size(rows) - 1) : file' = Truncated(rows, n)
    /\ Raise("OSError")
    /\ UNCHANGED <<envKey, encoding, counted, count, mode, batches, calls, samplings,
                   dupResponses, rawDistinct, returned>>

\* the remote capability starts to answer with already accepted texts only
RemoteTurnsRepetitive ==
    /\ pc \in {"sample", "request"}
    /\ mode = "free"
    /\ prompts # <<>>
    /\ mode' = "dupOnly"
    /\ UNCHANGED <<pc, envKey, file, encoding, counted, outcome, count, i, prompts,
                   generated_content, batches, calls, samplings, dupResponses,
                   rawDistinct, returned>>

Next ==
    \/ \E arg \in ApiKeyArgs : Construct(arg)
    \/ \E n \in 0..MaxCount : StartBatch(n)
    \/ Sample
    \/ \E raw \in Responses : RemoteReturns(raw)
    \/ \E exc \in Exceptions : RemoteFails(exc)
    \/ Save
    \/ OpenFails
    \/ EncodeFails
    \/ FlushFails
    \/ RemoteTurnsRepetitive

Spec == Init /\ [][Next]_vars

\* a call returns
Returns == \E raw \in Responses : RemoteReturns(raw)

\* the write ends, in success or in an exception
WriteEnds == Save \/ OpenFails \/ EncodeFails \/ FlushFails

\* the start of a run, its calls counted or not
LiveInit ==
    /\ pc = "start"
    /\ envKey \in EnvKeys
    /\ file \in InitialFiles
    /\ encoding \in Encodings
    /\ counted \in BOOLEAN
    /\ outcome = "none"
    /\ count = 0
    /\ i = 1
    /\ prompts = <<>>
    /\ generated_content = {}
    /\ mode = "free"
    /\ batches = 0
    /\ calls = Zero
    /\ samplings = Zero
    /\ dupResponses = Zero
    /\ rawDistinct = TRUE
    /\ returned = {}

\* the run of main without failures of the remote capability, one batch
LiveNext ==
    \/ \E arg \in ApiKeyArgs : Construct(arg)
    \/ \E n \in 0..MaxCount : pc = "ready" /\ StartBatch(n)
    \/ Sample
    \/ \E raw \in Responses : RemoteReturns(raw)
    \/ Save
    \/ OpenFails
    \/ EncodeFails
    \/ FlushFails

\* a call that returns a text not accepted before in this batch
FreshReturn == \E raw \in Responses : Strip(raw) \notin Texts(prompts) /\ RemoteReturns(raw)

\* The event loop runs the coroutine on (WF of the local steps and of the
\* write), every call returns (WF of Returns) and, called again and again,
\* the remote capability again and again returns a text not yet accepted
\* (SF).  In the runs whose calls are not counted a duplicate response leads
\* back to a state met before, and only SF keeps the run from going round
\* for ever.
LiveSpec ==
    /\ LiveInit
    /\ [][LiveNext]_vars
    /\ WF_vars(Sample)
    /\ WF_vars(WriteEnds)
    /\ WF_vars(Returns)
    /\ SF_vars(FreshReturn)

\* ---------------------------------------------------------------- properties
InBatch == pc \in {"sample", "request", "save", "done"}

IsTrimmed(s) == s = <<>> \/ (s[1] \notin Whitespace /\ s[Len(s)] \notin Whitespace)

DataFields(f) == {f.rows[k][2] : k \in 2..Len(f.rows)}

\* C1: when generate_and_save(N) has completed, the file holds the header row
\* followed by exactly N data rows, the k-th carrying sequence number k,
\* however many duplicate responses were rejected; for N = 0 no remote call
\* was made and only the header is written.
C1_RowsNumbered ==
    pc = "done" =>
        /\ file.exists
        /\ Len(file.rows) = count + 1
        /\ file.rows[1] = Header
        /\ \A k \in 1..count :
              /\ prompts[k][1] = k
              /\ file.rows[k + 1] = <<CsvField(Str(k)), CsvField(prompts[k][2])>>
        /\ (count = 0 => calls = 0 /\ samplings = 0 /\ file.rows = <<Header>>)

C1_Witness ==
    /\ pc = "done"
    /\ count = MaxCount
    /\ dupResponses >= 1
    /\ file.rows[count + 1][1] = CsvField(Str(count))

\* C2: in every state of generate_batch no two items of the result list have
\* the same text, every text is the whitespace-trimmed response, and no two
\* data rows of a written file have the same Prompt field.
C2_Unique ==
    /\ \A j, k \in 1..Len(prompts) : j # k => prompts[j][2] # prompts[k][2]
    /\ \A k \in 1..Len(prompts) : IsTrimmed(prompts[k][2])
    /\ file \notin InitialFiles =>
          \A j, k \in 2..Len(file.rows) : j # k => file.rows[j][2] # file.rows[k][2]

C2_Witness ==
    /\ pc = "done"
    /\ Len(prompts) >= 2
    /\ dupResponses >= 1
    /\ rawDistinct
    /\ Cardinality(DataFields(file)) = Len(prompts)

\* C3 as stated: if every string the remote capability returned differs from
\* every string it returned before, generate_batch(N) ends after exactly N
\* remote calls and N parameter samplings.
C3_AsClaimed ==
    (rawDistinct /\ pc \in {"save", "done"}) => (calls = count /\ samplings = count)

\* C3 amended: if the whitespace-trimmed text of every response differs from
\* the trimmed text of every earlier response of the batch, generate_batch(N)
\* issues one call per sampling, never more than N, and ends after exactly N
\* remote calls and N parameter samplings.
C3_FreshTextsExactCalls ==
    (InBatch /\ dupResponses = 0) =>
        /\ calls = Len(prompts)
        /\ calls <= count
        /\ samplings = calls + (IF pc = "request" THEN 1 ELSE 0)
        /\ (pc \in {"save", "done"} => calls = count /\ samplings = count)

C3_Witness ==
    /\ pc = "done"
    /\ dupResponses = 0
    /\ count = MaxCount
    /\ calls = count

\* C4: a response whose text is in the seen set is discarded (nothing
\* appended, numbered or written) and the loop goes back to draw parameters
\* and request again; every other response adds exactly one item; so the
\* remote calls of a batch are its accepted items plus its duplicate responses.
C4_DuplicateStep ==
    /\ dupResponses' = dupResponses + 1 =>
          /\ prompts' = prompts
          /\ generated_content' = generated_content
          /\ i' = i
          /\ file' = file
          /\ pc' = "sample"
          /\ calls' = calls + 1
    /\ (calls' = calls + 1 /\ pc' # "aborted" /\ dupResponses' = dupResponses) =>
          /\ Len(prompts') = Len(prompts) + 1
          /\ prompts' = Append(prompts, <<Len(prompts) + 1, prompts'[Len(prompts')][2]>>)
          /\ prompts'[Len(prompts')][2] \notin Texts(prompts)

C4_DuplicatesDiscarded ==
    /\ [](InBatch => calls = Len(prompts) + dupResponses)
    /\ [][C4_DuplicateStep]_vars

C4_Witness ==
    /\ pc = "done"
    /\ count >= 2
    /\ dupResponses = MaxDups
    /\ calls = count + MaxDups

\* C5: the file changes only in the write that follows a complete batch of N
\* items, and that write leaves the complete output (no partial output); a
\* failed remote call is not retried, ends the run and leaves the file as it
\* was, the accepted items being lost.
C5_Step ==
    /\ file' # file =>
          /\ pc = "save"
          /\ Len(prompts) = count
          /\ file' = Written(CsvRows(prompts))
    /\ pc' = "aborted" => file' = file
    /\ pc = "aborted" => (pc' = "aborted" /\ calls' = calls /\ file' = file)

C5_AsClaimed == [][C5_Step]_vars

\* C6: without a credential (OPENAI_API_KEY unset or empty, no api_key given)
\* the construction fails before any sampling or remote call, main reports a
\* configuration error, no batch runs and the file is neither created nor
\* modified.
C6_NoCredential ==
    envKey \in {NoKey, ""} =>
        /\ pc \in {"start", "aborted"}
        /\ (pc = "aborted" => outcome = "config_error")
        /\ batches = 0
        /\ calls = 0
        /\ samplings = 0
        /\ file \in InitialFiles

C6_Witness ==
    /\ pc = "aborted"
    /\ envKey = NoKey
    /\ outcome = "config_error"
    /\ file = NoFile

\* C7: a failure of the remote call in a run whose credential check passed is
\* reported as a generation error, never as a configuration error, whatever
\* the exception; a configuration error is reported only for a missing
\* credential.
C7_AsClaimed ==
    /\ outcome = "config_error" => envKey \in {NoKey, ""}
    /\ (pc = "aborted" /\ calls > 0) => outcome = "generation_error"

\* C8: once the remote capability, after at least one accepted item, returns
\* only texts of the seen set, generate_batch(N) never leaves the loop: the
\* accepted count stays below N, every duplicate leads to another call, and
\* the file is not written.
C8_Step ==
    mode = "dupOnly" =>
        /\ mode' = "dupOnly"
        /\ pc' \in {"sample", "request"}
        /\ prompts' = prompts
        /\ file' = file
        /\ calls' >= calls

C8_NoAttemptBound ==
    /\ [](mode = "dupOnly" =>
            /\ pc \in {"sample", "request"}
            /\ count >= 2
            /\ Len(prompts) >= 1
            /\ Len(prompts) < count
            /\ (dupResponses < MaxDups =>
                  ENABLED (Sample \/ \E raw \in Responses : RemoteReturns(raw))))
    /\ [][C8_Step]_vars

C8_Witness ==
    /\ mode = "dupOnly"
    /\ pc = "sample"
    /\ dupResponses = MaxDups
    /\ calls = Len(prompts) + MaxDups
    /\ Len(prompts) < count

\* C9: every batch starts with an empty seen set and an empty result list, so
\* a text is judged against the texts of its own batch only (a later batch
\* accepts a text an earlier batch accepted) and the numbering restarts at 1.
C9_Step ==
    /\ batches' # batches =>
          /\ generated_content' = {}
          /\ prompts' = <<>>
          /\ i' = 1
    /\ (batches >= 2 /\ calls' = calls + 1 /\ pc' # "aborted"
          /\ dupResponses' = dupResponses) =>
          Len(prompts') = Len(prompts) + 1

C9_BatchScoped ==
    /\ [](Len(prompts) >= 1 => prompts[1][1] = 1)
    /\ [][C9_Step]_vars

C9_Witness ==
    /\ batches = 2
    /\ pc \in {"sample", "request", "save"}
    /\ Len(prompts) >= 1
    /\ prompts[1][1] = 1
    /\ file \notin InitialFiles
    /\ CsvField(prompts[1][2]) \in DataFields(file)

SeenIsTexts ==
    InBatch =>
        /\ generated_content = Texts(prompts)
        /\ Cardinality(generated_content) = Len(prompts)

\* C10 as stated: if the remote capability never fails and, called again and
\* again, again and again returns a text not in the seen set,
\* generate_and_save(N) ends with the file written; and at every iteration
\* boundary the seen set is the set of texts of the result list, as large as
\* the list is long.
C10_AsClaimed ==
    /\ []SeenIsTexts
    /\ (pc \in {"sample", "request", "save"}) ~>
          (pc = "done" /\ file = [exists |-> TRUE, rows |-> CsvRows(prompts), cut |-> <<>>])

\* C10 amended: under the same assumptions generate_batch(N) returns its N
\* items and generate_and_save(N) ends: with the file written, or with the
\* exception of the failed write reaching main; the seen set is as stated.
C10_Terminates ==
    /\ []SeenIsTexts
    /\ (pc \in {"sample", "request"}) ~>
          (pc = "save" /\ Len(prompts) = count /\ Cardinality(Texts(prompts)) = count)
    /\ (pc = "save") ~>
          \/ pc = "done" /\ file = [exists |-> TRUE, rows |-> CsvRows(prompts), cut |-> <<>>]
          \/ pc = "aborted" /\ outcome \in {"config_error", "generation_error"}

C10_Witness ==
    /\ pc = "done"
    /\ count = MaxCount
    /\ counted
    /\ dupResponses = MaxDups
    /\ Cardinality(generated_content) = count
    /\ file.rows = CsvRows(prompts)

====
